---- MODULE Spec2Model ----
(***************************************************************************)
(* figsearch (src/example/figsearch/figsearch.c): one invocation of the    *)
(* command-line tool, from main's dispatch through load_bitmap and          *)
(* find_hline to the process exit.                                          *)
(*                                                                          *)
(* The input source is a sequence of whitespace-separated tokens.  A token  *)
(* is either numeric ([num |-> TRUE, val |-> v], an optionally signed       *)
(* decimal integer) or not a number ([num |-> FALSE]).                      *)
(*                                                                          *)
(* C `unsigned` is modelled as an integer modulo UMod = 2^UBits.  The       *)
(* program's unsigned has 32 bits; TLC's integers cannot hold 2^32, so the  *)
(* word is scaled down to UBits bits and every unsigned operation of the    *)
(* source is reduced modulo UMod exactly where the C operation wraps.       *)
(***************************************************************************)
EXTENDS Integers, Sequences, FiniteSets, TLC

\* ------------------------------------------------------------------ bounds
UBits == 4
MaxPixels == 8

UMod == 2 ^ UBits

\* unsigned wrap-around of a mathematical integer
U(v) == v % UMod

\* ------------------------------------------------------------------ tokens
Num(v) == [num |-> TRUE, val |-> v]
Junk == [num |-> FALSE, val |-> 0]

\* dimension tokens tried: not a number, negative, zero, small, and (for
\* the height) one so large that height * width exceeds the unsigned range
WidthToks == {Junk, Num(-(UMod - 1)), Num(0), Num(1), Num(2), Num(3), Num(4)}
HeightToks == {Junk, Num(-(UMod - 1)), Num(0), Num(1), Num(2), Num(3), Num(UMod \div 2 + 1)}

RECURSIVE BinSeqs(_)
BinSeqs(n) ==
  IF n = 0 THEN {<<>>}
  ELSE LET S == BinSeqs(n - 1)
       IN S \cup {Append(s, Num(b)) : s \in {t \in S : Len(t) = n - 1}, b \in {0, 1}}

\* what may follow the binary pixel tokens: nothing, a non-binary number,
\* or a token that is not a number
Tails == {<<>>, <<Num(2)>>, <<Junk>>}

Headers ==
  {<<>>} \cup {<<h>> : h \in HeightToks} \cup {<<h, w>> : h \in HeightToks, w \in WidthToks}

Files ==
  {hd \o px \o tl : hd \in {h \in Headers : Len(h) = 2}, px \in BinSeqs(MaxPixels), tl \in Tails}
  \cup {hd \in Headers : Len(hd) < 2}

Verbs == {"--help", "test", "hline", "other"}

\* ------------------------------------------------------------------- state
VARIABLES
  argc, verb, fileExists, file,        \* the invocation and the named source
  pc,                                  \* position in the program
  fpos,                                \* tokens of file consumed by fscanf
  width, height, index,                \* locals of load_bitmap
  bitmap,                              \* the Bitmap, or NoBitmap (NULL)
  fopens, fcloses, allocs, frees,      \* calls of fopen/fclose/malloc/free that took effect
  stdout, stderr, exitCode,            \* what the process emitted (exitCode -1: still running)
  x, y, i, length_final, start_final, end_final, start, end, \* locals of find_hline
  line, result                         \* locals of main (hline branch)

argvVars == <<argc, verb, fileExists, file>>
loadVars == <<fpos, width, height, index>>
resVars == <<fopens, fcloses, allocs, frees>>
ioVars == <<stdout, stderr, exitCode>>
findVars == <<x, y, i, length_final, start_final, end_final, start, end>>
mainVars == <<line, result>>
vars == <<argvVars, pc, loadVars, bitmap, resVars, ioVars, findVars, mainVars>>

NoBitmap == [width |-> 0, height |-> 0, size |-> -1, data |-> <<>>]
Point(px, py) == [x |-> px, y |-> py]
NoPoint == Point(-1, -1)
NoLine == [start |-> NoPoint, end |-> NoPoint]
\* the status of a process killed by SIGSEGV (signal 11), as a shell reports it
Killed == 128 + 11

Init ==
  /\ \/ /\ argc \in {1, 4}              \* too few or too many arguments
        /\ verb = "other" /\ fileExists = FALSE /\ file = <<>>
     \/ /\ argc = 2                       \* a verb without a filename
        /\ verb \in Verbs /\ fileExists = FALSE /\ file = <<>>
     \/ /\ argc = 3                       \* a verb and a filename that cannot be opened
        /\ verb \in Verbs /\ fileExists = FALSE /\ file = <<>>
     \/ /\ argc = 3                       \* a verb and a readable source
        /\ verb \in {"test", "hline"} /\ fileExists = TRUE /\ file \in Files
  /\ pc = "main"
  /\ fpos = 0 /\ width = 0 /\ height = 0 /\ index = 0
  /\ bitmap = NoBitmap
  /\ fopens = 0 /\ fcloses = 0 /\ allocs = 0 /\ frees = 0
  /\ stdout = <<>> /\ stderr = <<>> /\ exitCode = -1
  /\ x = 0 /\ y = 0 /\ i = 0 /\ length_final = 0
  /\ start_final = NoPoint /\ end_final = NoPoint
  /\ start = NoPoint /\ end = NoPoint
  /\ line = NoLine /\ result = -1

\* `return code` from main
Exit(code) == pc' = "exit" /\ exitCode' = code

\* ------------------------------------------------------------------- main
main_invalid_arguments ==
  /\ pc = "main"
  /\ (argc < 2 \/ argc > 3)
  /\ stderr' = Append(stderr, "Invalid arguments")
  /\ Exit(1)
  /\ UNCHANGED <<argvVars, loadVars, bitmap, resVars, stdout, findVars, mainVars>>

\* print_help: the usage text
print_help == <<"Usage: figsearch COMMAND [FILE]">>

main_help ==
  /\ pc = "main"
  /\ ~(argc < 2 \/ argc > 3)
  /\ verb = "--help"
  /\ stdout' = Append(stdout, print_help)
  /\ Exit(0)
  /\ UNCHANGED <<argvVars, loadVars, bitmap, resVars, stderr, findVars, mainVars>>

\* get_filename returns NULL unless argc > 2
get_filename == IF argc > 2 THEN "FILE" ELSE "NULL"

main_filename_required ==
  /\ pc = "main"
  /\ ~(argc < 2 \/ argc > 3)
  /\ verb \in {"test", "hline"}
  /\ get_filename = "NULL"
  /\ stderr' = Append(stderr, "Filename required")
  /\ Exit(1)
  /\ UNCHANGED <<argvVars, loadVars, bitmap, resVars, stdout, findVars, mainVars>>

main_invalid_command ==
  /\ pc = "main"
  /\ ~(argc < 2 \/ argc > 3)
  /\ verb \notin {"--help", "test", "hline"}
  /\ stderr' = Append(stderr, "Invalid command")
  /\ Exit(1)
  /\ UNCHANGED <<argvVars, loadVars, bitmap, resVars, stdout, findVars, mainVars>>

\* test_bitmap(filename) and the hline branch both start with load_bitmap
main_call_load ==
  /\ pc = "main"
  /\ ~(argc < 2 \/ argc > 3)
  /\ verb \in {"test", "hline"}
  /\ get_filename # "NULL"
  /\ pc' = "fopen"
  /\ UNCHANGED <<argvVars, loadVars, bitmap, resVars, ioVars, findVars, mainVars>>

\* ------------------------------------------------------------ load_bitmap
\* fscanf "%u": an optionally signed decimal integer, converted as strtoul
\* does and stored in an unsigned: a negative number wraps around
ScanU(tok) == U(tok.val)

\* number of items fscanf(file, "%u %u", ...) converts at the head of f
ScanDimsCount(f) ==
  IF Len(f) < 1 \/ ~f[1].num THEN 0
  ELSE IF Len(f) < 2 \/ ~f[2].num THEN 1
  ELSE 2

\* the check `width <= 0 || height <= 0` on two unsigned values
InvalidSize(w, h) == w <= 0 \/ h <= 0

\* `width * height` in unsigned arithmetic: bitmap_area in load_bitmap and
\* the number of data cells create_bitmap asks malloc for
bitmap_area(w, h) == U(w * h)

\* create_bitmap on successful malloc: width and height set, data not yet
create_bitmap(w, h) ==
  [width |-> w, height |-> h, size |-> bitmap_area(w, h), data |-> <<>>]

\* faulty variant of InvalidPixel: the value of the pixel is not checked
InvalidPixel_unchecked(f, pos) ==
  IF pos + 1 > Len(f) THEN TRUE
  ELSE ~f[pos + 1].num

\* fscanf(file, "%d", &pixel) != 1 || (pixel != 0 && pixel != 1)
InvalidPixel(f, pos) ==
  IF pos + 1 > Len(f) THEN TRUE            \* end of file
  ELSE IF ~f[pos + 1].num THEN TRUE        \* matching failure
  ELSE f[pos + 1].val # 0 /\ f[pos + 1].val # 1

\* load_bitmap returns to test_bitmap or to main's hline branch
LoadReturn == pc' = "load_ret"

load_fopen_fail ==
  /\ pc = "fopen"
  /\ ~fileExists
  /\ stderr' = Append(stderr, "File not found")
  /\ bitmap' = NoBitmap
  /\ LoadReturn
  /\ UNCHANGED <<argvVars, loadVars, resVars, stdout, exitCode, findVars, mainVars>>

load_fopen ==
  /\ pc = "fopen"
  /\ fileExists
  /\ fopens' = fopens + 1
  /\ pc' = "scan_dims"
  /\ UNCHANGED <<argvVars, loadVars, bitmap, fcloses, allocs, frees, ioVars, findVars, mainVars>>

load_invalid_format ==
  /\ pc = "scan_dims"
  /\ ScanDimsCount(file) # 2
  /\ fcloses' = fcloses + 1
  /\ stderr' = Append(stderr, "Invalid file format")
  /\ bitmap' = NoBitmap
  /\ LoadReturn
  /\ UNCHANGED <<argvVars, loadVars, fopens, allocs, frees, stdout, exitCode, findVars, mainVars>>

load_scan_dims ==
  /\ pc = "scan_dims"
  /\ ScanDimsCount(file) = 2
  /\ height' = ScanU(file[1])
  /\ width' = ScanU(file[2])
  /\ fpos' = 2
  /\ pc' = "check_dims"
  /\ UNCHANGED <<argvVars, index, bitmap, resVars, ioVars, findVars, mainVars>>

load_invalid_size ==
  /\ pc = "check_dims"
  /\ InvalidSize(width, height)
  /\ fcloses' = fcloses + 1
  /\ stderr' = Append(stderr, "Invalid bitmap size")
  /\ bitmap' = NoBitmap
  /\ LoadReturn
  /\ UNCHANGED <<argvVars, loadVars, fopens, allocs, frees, stdout, exitCode, findVars, mainVars>>

\* malloc succeeds
load_create_bitmap ==
  /\ pc = "check_dims"
  /\ ~InvalidSize(width, height)
  /\ bitmap' = create_bitmap(width, height)
  /\ allocs' = allocs + 1
  /\ index' = 0
  /\ pc' = "read_pixels"
  /\ UNCHANGED <<argvVars, fpos, width, height, fopens, fcloses, frees, ioVars, findVars, mainVars>>

\* malloc returns NULL
load_alloc_fail ==
  /\ pc = "check_dims"
  /\ ~InvalidSize(width, height)
  /\ fcloses' = fcloses + 1
  /\ stderr' = Append(stderr, "Memory allocation failed")
  /\ bitmap' = NoBitmap
  /\ LoadReturn
  /\ UNCHANGED <<argvVars, loadVars, fopens, allocs, frees, stdout, exitCode, findVars, mainVars>>

\* faulty variant of load_invalid_pixel: the file is left open
load_invalid_pixel_leak ==
  /\ pc = "read_pixels"
  /\ index < bitmap_area(width, height)
  /\ InvalidPixel(file, fpos)
  /\ frees' = frees + 1
  /\ stderr' = Append(stderr, "Invalid pixel value")
  /\ bitmap' = NoBitmap
  /\ LoadReturn
  /\ UNCHANGED <<argvVars, loadVars, fopens, fcloses, allocs, stdout, exitCode, findVars, mainVars>>

\* the pixel loop's failure exit: free_bitmap, fclose, diagnostic, NULL
load_invalid_pixel ==
  /\ pc = "read_pixels"
  /\ index < bitmap_area(width, height)
  /\ InvalidPixel(file, fpos)
  /\ frees' = frees + 1
  /\ fcloses' = fcloses + 1
  /\ stderr' = Append(stderr, "Invalid pixel value")
  /\ bitmap' = NoBitmap
  /\ LoadReturn
  /\ UNCHANGED <<argvVars, loadVars, fopens, allocs, stdout, exitCode, findVars, mainVars>>

load_read_pixel ==
  /\ pc = "read_pixels"
  /\ index < bitmap_area(width, height)
  /\ ~InvalidPixel(file, fpos)
  /\ bitmap' = [bitmap EXCEPT !.data = Append(@, file[fpos + 1].val)]
  /\ fpos' = fpos + 1
  /\ index' = U(index + 1)
  /\ UNCHANGED <<argvVars, pc, width, height, resVars, ioVars, findVars, mainVars>>

load_done ==
  /\ pc = "read_pixels"
  /\ ~(index < bitmap_area(width, height))
  /\ fcloses' = fcloses + 1
  /\ LoadReturn
  /\ UNCHANGED <<argvVars, loadVars, bitmap, fopens, allocs, frees, ioVars, findVars, mainVars>>

\* ------------------------------------------------------------ test_bitmap
test_bitmap_fail ==
  /\ pc = "load_ret"
  /\ verb = "test"
  /\ bitmap = NoBitmap
  /\ Exit(1)
  /\ UNCHANGED <<argvVars, loadVars, bitmap, resVars, stdout, stderr, findVars, mainVars>>

test_bitmap_ok ==
  /\ pc = "load_ret"
  /\ verb = "test"
  /\ bitmap # NoBitmap
  /\ frees' = frees + 1
  /\ Exit(0)
  /\ UNCHANGED <<argvVars, loadVars, bitmap, fopens, fcloses, allocs, stdout, stderr, findVars, mainVars>>

\* ------------------------------------------------------ main, hline branch
hline_load_fail ==
  /\ pc = "load_ret"
  /\ verb = "hline"
  /\ bitmap = NoBitmap
  /\ Exit(1)
  /\ UNCHANGED <<argvVars, loadVars, bitmap, resVars, stdout, stderr, findVars, mainVars>>

\* find_hline(bitmap, &line) is entered: length_final = 0, y = 0;
\* start_final and end_final are not initialised
hline_call_find ==
  /\ pc = "load_ret"
  /\ verb = "hline"
  /\ bitmap # NoBitmap
  /\ length_final' = 0
  /\ start_final' = NoPoint /\ end_final' = NoPoint
  /\ y' = 0
  /\ pc' = "hl_y"
  /\ UNCHANGED <<argvVars, loadVars, bitmap, resVars, ioVars, x, i, start, end, mainVars>>

\* -------------------------------------------------------------- find_hline
\* faulty variant of CellIndex: the row stride taken from height
CellIndex_swapped(b, cx, cy) == U(cy * b.height + cx)

\* unsigned index = y * bitmap->width + x
CellIndex(b, cx, cy) == U(cy * b.width + cx)

\* faulty variant of RowBound: the bound one column too small
RowBound_short(b, lf) == U(b.width - lf - 1)

\* the bound of the x loop: bitmap->width - length_final, unsigned
RowBound(b, lf) == U(b.width - lf)

\* faulty variant of LookCond: the look-ahead runs one cell past the row
LookCond_le(b, li) == li <= b.width

\* the condition of the look-ahead loop: i < bitmap->width
LookCond(b, li) == li < b.width

\* faulty variant of hline_length: the + 1 forgotten
hline_length_exclusive(s, e) == U(e.x - s.x)

\* unsigned hline_length(Point start, Point end)
hline_length(s, e) == U(e.x - s.x + 1)

\* faulty variant of Better: a run of equal length replaces the best
Better_ge(cur, best) == best = 0 \/ cur >= best

\* !length_final || current_length > length_final
Better(cur, best) == best = 0 \/ cur > best

\* idx addresses one of the data cells malloc returned
InBounds(b, idx) == idx < b.size

\* a read of bitmap->data[idx] inside the allocated data
Read(b, idx) == b.data[idx + 1]

find_next_row ==
  /\ pc = "hl_y"
  /\ y < bitmap.height
  /\ x' = 0
  /\ pc' = "hl_x"
  /\ UNCHANGED <<argvVars, loadVars, bitmap, resVars, ioVars, y, i, length_final,
                 start_final, end_final, start, end, mainVars>>

find_rows_done ==
  /\ pc = "hl_y"
  /\ ~(y < bitmap.height)
  /\ pc' = "hl_ret"
  /\ UNCHANGED <<argvVars, loadVars, bitmap, resVars, ioVars, findVars, mainVars>>

find_next_cell ==
  /\ pc = "hl_x"
  /\ x < RowBound(bitmap, length_final)
  /\ pc' = "hl_cell"
  /\ UNCHANGED <<argvVars, loadVars, bitmap, resVars, ioVars, findVars, mainVars>>

find_row_done ==
  /\ pc = "hl_x"
  /\ ~(x < RowBound(bitmap, length_final))
  /\ y' = U(y + 1)
  /\ pc' = "hl_y"
  /\ UNCHANGED <<argvVars, loadVars, bitmap, resVars, ioVars, x, i, length_final,
                 start_final, end_final, start, end, mainVars>>

\* if (bitmap->data[index]) { start = end = {x, y}; i = x + 1; ... } else x++
find_cell ==
  /\ pc = "hl_cell"
  /\ InBounds(bitmap, CellIndex(bitmap, x, y))
  /\ LET v == Read(bitmap, CellIndex(bitmap, x, y))
     IN IF v = 1
          THEN /\ start' = Point(x, y)
               /\ end' = Point(x, y)
               /\ i' = U(x + 1)
               /\ pc' = "hl_i"
               /\ UNCHANGED x
          ELSE /\ x' = U(x + 1)
               /\ pc' = "hl_x"
               /\ UNCHANGED <<start, end, i>>
  /\ UNCHANGED <<argvVars, loadVars, bitmap, resVars, ioVars, y, length_final,
                 start_final, end_final, mainVars>>

\* one iteration of for (i = x + 1; i < width; i++): on an unset cell
\* x = i and break, otherwise end.x = i
find_look ==
  /\ pc = "hl_i"
  /\ LookCond(bitmap, i)
  /\ InBounds(bitmap, CellIndex(bitmap, i, y))
  /\ LET v == Read(bitmap, CellIndex(bitmap, i, y))
     IN IF v = 0
          THEN /\ x' = i
               /\ pc' = "hl_cmp"
               /\ UNCHANGED <<end, i>>
          ELSE /\ end' = [end EXCEPT !.x = i]
               /\ i' = U(i + 1)
               /\ UNCHANGED <<x, pc>>
  /\ UNCHANGED <<argvVars, loadVars, bitmap, resVars, ioVars, y, length_final,
                 start_final, end_final, start, mainVars>>

\* the look-ahead loop ends at the end of the row
find_look_done ==
  /\ pc = "hl_i"
  /\ ~LookCond(bitmap, i)
  /\ pc' = "hl_cmp"
  /\ UNCHANGED <<argvVars, loadVars, bitmap, resVars, ioVars, findVars, mainVars>>

\* current_length against length_final, then the x loop's x++
find_compare ==
  /\ pc = "hl_cmp"
  /\ LET current_length == hline_length(start, end)
     IN IF Better(current_length, length_final)
        THEN /\ start_final' = start
             /\ end_final' = end
             /\ length_final' = current_length
        ELSE UNCHANGED <<start_final, end_final, length_final>>
  /\ x' = U(x + 1)
  /\ pc' = "hl_x"
  /\ UNCHANGED <<argvVars, loadVars, bitmap, resVars, ioVars, y, i, start, end, mainVars>>

\* print_line: "%u %u %u %u\n" of start.y, start.x, end.y, end.x
print_line(l) == <<l.start.y, l.start.x, l.end.y, l.end.x>>

\* bitmap->data[index] or bitmap->data[look_index] read outside the
\* allocated data: the behaviour is undefined.  The process may be killed,
\* or go on with whatever it read and end with either exit code, with or
\* without a line printed; what it does is not followed further.
find_undefined ==
  /\ \/ pc = "hl_cell" /\ ~InBounds(bitmap, CellIndex(bitmap, x, y))
     \/ pc = "hl_i" /\ LookCond(bitmap, i) /\ ~InBounds(bitmap, CellIndex(bitmap, i, y))
  /\ pc' = "undefined"
  /\ exitCode' \in {0, 1, Killed}
  /\ stdout' \in {stdout, Append(stdout, print_line(NoLine))}
  /\ UNCHANGED <<argvVars, loadVars, bitmap, resVars, stderr, findVars, mainVars>>

find_return ==
  /\ pc = "hl_ret"
  /\ IF length_final # 0
     THEN /\ line' = [start |-> start_final, end |-> end_final]
          /\ result' = 0
     ELSE /\ result' = 1
          /\ UNCHANGED line
  /\ pc' = "hline_ret"
  /\ UNCHANGED <<argvVars, loadVars, bitmap, resVars, ioVars, findVars>>

hline_found ==
  /\ pc = "hline_ret"
  /\ frees' = frees + 1
  /\ result = 0
  /\ stdout' = Append(stdout, print_line(line))
  /\ Exit(0)
  /\ UNCHANGED <<argvVars, loadVars, bitmap, fopens, fcloses, allocs, stderr, findVars, mainVars>>

\* faulty variant of hline_not_found: the line is printed without looking
\* at result
hline_not_found_prints ==
  /\ pc = "hline_ret"
  /\ frees' = frees + 1
  /\ result # 0
  /\ stdout' = Append(stdout, print_line(line))
  /\ Exit(0)
  /\ UNCHANGED <<argvVars, loadVars, bitmap, fopens, fcloses, allocs, stderr, findVars, mainVars>>

hline_not_found ==
  /\ pc = "hline_ret"
  /\ frees' = frees + 1
  /\ result # 0
  /\ stderr' = Append(stderr, "No line found")
  /\ Exit(1)
  /\ UNCHANGED <<argvVars, loadVars, bitmap, fopens, fcloses, allocs, stdout, findVars, mainVars>>

\* ----------------------------------------------------------- specification
Next ==
  \/ main_invalid_arguments
  \/ main_help
  \/ main_filename_required
  \/ main_invalid_command
  \/ main_call_load
  \/ load_fopen_fail
  \/ load_fopen
  \/ load_invalid_format
  \/ load_scan_dims
  \/ load_invalid_size
  \/ load_create_bitmap
  \/ load_alloc_fail
  \/ load_invalid_pixel
  \/ load_read_pixel
  \/ load_done
  \/ test_bitmap_fail
  \/ test_bitmap_ok
  \/ hline_load_fail
  \/ hline_call_find
  \/ find_next_row
  \/ find_rows_done
  \/ find_next_cell
  \/ find_row_done
  \/ find_cell
  \/ find_look
  \/ find_look_done
  \/ find_compare
  \/ find_undefined
  \/ find_return
  \/ hline_found
  \/ hline_not_found

Spec == Init /\ [][Next]_vars

\* ================================================================ properties
\* The Grid of the data model: positive dimensions and exactly
\* width * height cells, all of them filled.
GridValid(b) ==
  /\ b.width > 0 /\ b.height > 0
  /\ b.size = b.width * b.height
  /\ Len(b.data) = b.width * b.height

\* cell (cx, cy) of a valid grid is set
IsSet(b, cx, cy) == b.data[cy * b.width + cx + 1] = 1

AnySet(b) == \E k \in 1..Len(b.data) : b.data[k] = 1

\* columns a..e of row cy are a maximal run of set cells
IsRun(b, cy, a, e) ==
  /\ cy \in 0..(b.height - 1)
  /\ 0 <= a /\ a <= e /\ e < b.width
  /\ \A k \in a..e : IsSet(b, k, cy)
  /\ (a = 0 \/ ~IsSet(b, a - 1, cy))
  /\ (e = b.width - 1 \/ ~IsSet(b, e + 1, cy))

Runs(b) ==
  {r \in [y : 0..(b.height - 1), a : 0..(b.width - 1), e : 0..(b.width - 1)] :
     IsRun(b, r.y, r.a, r.e)}

RunLen(r) == r.e - r.a + 1
LineLen(l) == l.end.x - l.start.x + 1

\* the runs of greatest length
Longest(b) == {r \in Runs(b) : \A q \in Runs(b) : RunLen(q) <= RunLen(r)}

\* find_hline has returned to main and the bitmap is not yet released
Returned == pc = "hline_ret"

\* a position inside find_hline
InFind == pc \in {"hl_y", "hl_x", "hl_cell", "hl_i", "hl_cmp", "hl_ret"}

\* C1: on a grid with at least one set cell find_hline returns a line, and
\* the line is at least as long as every maximal run of every row.
C1_GlobalLongest ==
  (Returned /\ GridValid(bitmap) /\ AnySet(bitmap)) =>
    /\ result = 0
    /\ \A r \in Runs(bitmap) : LineLen(line) >= RunLen(r)

\* C1 witness: a line was returned while a later row holds a run that ends
\* in the last column and starts at or beyond the cut-off of the row scan.
C1_Witness ==
  /\ Returned /\ GridValid(bitmap) /\ result = 0
  /\ \E r \in Runs(bitmap) :
       /\ r.y > line.start.y
       /\ r.e = bitmap.width - 1
       /\ r.a >= bitmap.width - length_final
       /\ RunLen(r) >= 2

\* C2: among the runs of greatest length the line returned is the first in
\* row-major order: smallest row, then smallest starting column.
C2_FirstLongestWins ==
  (Returned /\ GridValid(bitmap) /\ result = 0) =>
    /\ [y |-> line.start.y, a |-> line.start.x, e |-> line.end.x] \in Longest(bitmap)
    /\ \A r \in Longest(bitmap) :
         \/ line.start.y < r.y
         \/ (line.start.y = r.y /\ line.start.x <= r.a)

\* C2 witness: three runs share the greatest length, two of them in one row
\* and one in another row.
C2_Witness ==
  /\ Returned /\ GridValid(bitmap) /\ result = 0
  /\ \E r1, r2, r3 \in Longest(bitmap) :
       /\ r1.y = r2.y /\ r1.a < r2.a
       /\ r3.y < r1.y
       /\ RunLen(r1) >= 1

\* C3: find_hline reports "not found" exactly when no cell is set, and hline
\* then exits 1 with "No line found"; with a set cell hline prints the line
\* and exits 0.
C3_NotFoundIffAllZero ==
  /\ (Returned /\ GridValid(bitmap)) => (result = 1 <=> ~AnySet(bitmap))
  /\ (Returned /\ GridValid(bitmap)) => (result = 0 <=> AnySet(bitmap))
  /\ (pc = "exit" /\ verb = "hline" /\ bitmap # NoBitmap /\ GridValid(bitmap)) =>
       IF AnySet(bitmap)
       THEN exitCode = 0 /\ stdout = <<print_line(line)>> /\ stderr = <<>>
       ELSE exitCode = 1 /\ stdout = <<>> /\ stderr = <<"No line found">>

\* C3 witness: hline has exited on a grid of several cells, none of them set.
C3_Witness ==
  /\ pc = "exit" /\ verb = "hline" /\ bitmap # NoBitmap /\ GridValid(bitmap)
  /\ Len(bitmap.data) >= 4 /\ bitmap.height >= 2
  /\ ~AnySet(bitmap)
  /\ exitCode = 1

\* the source starts with two numeric dimension tokens
HasDims(f) == Len(f) >= 2 /\ f[1].num /\ f[2].num

\* ... both of them positive
PositiveDims(f) == HasDims(f) /\ f[1].val > 0 /\ f[2].val > 0

\* ... both of them positive and within the range of an unsigned
DimsInRange(f) ==
  HasDims(f) /\ f[1].val \in 1..(UMod - 1) /\ f[2].val \in 1..(UMod - 1)

\* the tokens after the two dimension tokens
PixelCount(f) == Len(f) - 2

BinaryToken(t) == t.num /\ t.val \in {0, 1}

\* two positive dimensions, then exactly height * width tokens, each 0 or 1
WellFormed(f) ==
  /\ PositiveDims(f)
  /\ PixelCount(f) = f[1].val * f[2].val
  /\ \A k \in 3..Len(f) : BinaryToken(f[k])

\* the number of pixel tokens the loader asks for: height * width reduced
\* to the unsigned range
Wanted(f) == (f[1].val * f[2].val) % UMod

\* the first n pixel tokens are there and each is 0 or 1
FirstBinary(f, n) == PixelCount(f) >= n /\ \A k \in 3..(2 + n) : BinaryToken(f[k])

TestExited == pc = "exit" /\ verb = "test" /\ fileExists

\* C4 as stated: test succeeds on a well-formed source (memory permitting),
\* and fails on one whose pixel-token count is not height * width or that
\* holds a non-binary pixel token.
C4_Original ==
  (TestExited /\ PositiveDims(file)) =>
    /\ ((WellFormed(file) /\ allocs = 1) => exitCode = 0)
    /\ ((PixelCount(file) # file[1].val * file[2].val
          \/ \E k \in 3..Len(file) : ~BinaryToken(file[k])) => exitCode = 1)

\* C4 amended: with two positive dimension tokens that fit an unsigned, test
\* exits 0 exactly when the allocation succeeds and the first Wanted pixel
\* tokens are present and binary; it exits 1 otherwise.  Tokens beyond
\* those are never read.
C4_TestOutcome ==
  (TestExited /\ DimsInRange(file)) =>
    /\ exitCode \in {0, 1}
    /\ (exitCode = 0 <=> (allocs = 1 /\ FirstBinary(file, Wanted(file))))
    /\ ((WellFormed(file) /\ allocs = 1) => exitCode = 0)
    /\ (allocs = 0 => stderr = <<"Memory allocation failed">>)

\* C4 witness: test has accepted a source that holds more pixel tokens than
\* height * width, the surplus one not even binary.
C4_Witness ==
  /\ TestExited /\ PositiveDims(file)
  /\ PixelCount(file) > file[1].val * file[2].val
  /\ ~BinaryToken(file[Len(file)])
  /\ file[1].val * file[2].val >= 2
  /\ exitCode = 0

\* a declared dimension is zero or negative
NonPositiveDims(f) == HasDims(f) /\ (f[1].val <= 0 \/ f[2].val <= 0)

\* C5: a source with a non-positive declared height or width is never
\* loaded as a grid, and test and hline exit 1 on it.
C5_NonPositiveRejected ==
  (fileExists /\ NonPositiveDims(file)) =>
    /\ (pc = "load_ret" => bitmap = NoBitmap)
    /\ (pc = "exit" => exitCode = 1)

\* C6: a bitmap returned by load_bitmap has the dimensions read from the
\* first two tokens (height, then width), both positive, holds exactly
\* width * height cells, and cell y*width+x is pixel token number y*width+x.
C6_LoadedGridInvariant ==
  (pc = "load_ret" /\ bitmap # NoBitmap) =>
    /\ bitmap.height = ScanU(file[1]) /\ bitmap.width = ScanU(file[2])
    /\ bitmap.height > 0 /\ bitmap.width > 0
    /\ bitmap.size = bitmap.width * bitmap.height
    /\ Len(bitmap.data) = bitmap.width * bitmap.height
    /\ \A cy \in 0..(bitmap.height - 1) : \A cx \in 0..(bitmap.width - 1) :
         bitmap.data[cy * bitmap.width + cx + 1] = file[2 + cy * bitmap.width + cx + 1].val

\* what main was asked to do
WrongArgCount == argc < 2 \/ argc > 3
UnknownVerb == ~WrongArgCount /\ verb \notin {"--help", "test", "hline"}
MissingFilename == ~WrongArgCount /\ verb \in {"test", "hline"} /\ argc = 2
LoadAttempted == ~WrongArgCount /\ verb \in {"test", "hline"} /\ argc = 3
LoadFailed == LoadAttempted /\ bitmap = NoBitmap
NoLineFound == LoadAttempted /\ verb = "hline" /\ bitmap # NoBitmap /\ result = 1
LineFound == LoadAttempted /\ verb = "hline" /\ bitmap # NoBitmap /\ result = 0
Helped == ~WrongArgCount /\ verb = "--help"
TestLoaded == LoadAttempted /\ verb = "test" /\ bitmap # NoBitmap

EndsInError ==
  WrongArgCount \/ UnknownVerb \/ MissingFilename \/ LoadFailed \/ NoLineFound

\* C7: an invocation that ends in an error exits 1 with nothing on standard
\* output; exit 0 only for --help, a test that loaded, and an hline that
\* found a line; the four integers are printed only in that last case.
C7_ExitCodes ==
  (pc = "exit") =>
    /\ exitCode \in {0, 1}
    /\ (EndsInError => (exitCode = 1 /\ stdout = <<>> /\ stderr # <<>>))
    /\ (exitCode = 0 => (Helped \/ TestLoaded \/ LineFound))
    /\ (exitCode = 0 <=> ~EndsInError)
    /\ (stdout # <<>> /\ ~Helped => (LineFound /\ stdout = <<print_line(line)>>))
    /\ (TestLoaded => stdout = <<>>)

\* C7 witness: hline was given a source that loads but holds no set cell,
\* and has exited 1 without output.
C7_Witness ==
  /\ pc = "exit" /\ NoLineFound
  /\ Len(bitmap.data) >= 2
  /\ exitCode = 1 /\ stdout = <<>>

\* C8: load_bitmap closes the opened file exactly once on every path and
\* leaves no Bitmap allocated when it fails; a loaded bitmap is released
\* exactly once before the exit and is not read after its release.
C8_Resources ==
  /\ fcloses <= fopens /\ fopens <= 1
  /\ frees <= allocs /\ allocs <= 1
  /\ (pc \in {"scan_dims", "check_dims", "read_pixels"} => (fopens = 1 /\ fcloses = 0))
  /\ (pc = "load_ret" => fcloses = fopens)
  /\ (pc = "load_ret" /\ fileExists => (fopens = 1 /\ fcloses = 1))
  /\ (pc = "load_ret" /\ bitmap = NoBitmap => frees = allocs)
  /\ (pc = "load_ret" /\ bitmap # NoBitmap => (allocs = 1 /\ frees = 0))
  /\ (pc \in {"hl_y", "hl_x", "hl_cell", "hl_i", "hl_cmp", "hl_ret", "hline_ret"} =>
        (allocs = 1 /\ frees = 0))
  /\ (pc = "exit" => (frees = allocs /\ fcloses = fopens))

\* C8 witness: load_bitmap has returned after an invalid pixel token that
\* followed valid ones, with the file closed and the bitmap released.
C8_Witness ==
  /\ pc = "load_ret" /\ bitmap = NoBitmap
  /\ index >= 1
  /\ stderr = <<"Invalid pixel value">>
  /\ fopens = 1 /\ fcloses = 1 /\ allocs = 1 /\ frees = 1

\* C9: a line returned by find_hline is a maximal run of its row, and every
\* candidate run the scan measures starts at the left end of a run.
C9_MaximalRun ==
  /\ (Returned /\ GridValid(bitmap) /\ result = 0) =>
       /\ line.start.y = line.end.y
       /\ IsRun(bitmap, line.start.y, line.start.x, line.end.x)
  /\ (pc \in {"hl_i", "hl_cmp"} /\ GridValid(bitmap)) =>
       /\ start.y = y /\ end.y = y
       /\ IsSet(bitmap, start.x, y)
       /\ (start.x = 0 \/ ~IsSet(bitmap, start.x - 1, y))

\* C9 witness: the line returned ends in the last column and is not the
\* first run of its row.
C9_Witness ==
  /\ Returned /\ GridValid(bitmap) /\ result = 0
  /\ line.end.x = bitmap.width - 1
  /\ LineLen(line) >= 2
  /\ \E r \in Runs(bitmap) : r.y = line.start.y /\ r.e < line.start.x

\* C10: inside find_hline length_final never exceeds width, so the bound
\* width - length_final does not wrap; x is below width at every read, and
\* every index read is below width * height (and, on a valid grid, inside
\* the allocated data).
C10_ScanInBounds ==
  InFind =>
    /\ length_final <= bitmap.width
    /\ RowBound(bitmap, length_final) = bitmap.width - length_final
    /\ (pc \in {"hl_cell", "hl_cmp"} => x < bitmap.width)
    /\ (pc = "hl_cell" =>
          /\ CellIndex(bitmap, x, y) < bitmap.width * bitmap.height
          /\ (GridValid(bitmap) => InBounds(bitmap, CellIndex(bitmap, x, y))))
    /\ ((pc = "hl_i" /\ LookCond(bitmap, i)) =>
          /\ CellIndex(bitmap, i, y) < bitmap.width * bitmap.height
          /\ (GridValid(bitmap) => InBounds(bitmap, CellIndex(bitmap, i, y))))

\* C10 witness: the look-ahead loop has just broken out with x = i on the
\* last but one column of the last row, with a best run already recorded.
C10_Witness ==
  /\ pc = "hl_cmp" /\ GridValid(bitmap)
  /\ x = i /\ x = bitmap.width - 2
  /\ y = bitmap.height - 1 /\ y >= 1
  /\ length_final >= 2

====
